---- MODULE Spec2Model ----
(***************************************************************************)
(* Metropolis-Hastings random walk sampler                                 *)
(* (littleballoffur/exploration_sampling/                                  *)
(*  metropolishastingsrandomwalksampler.py).                               *)
(*                                                                         *)
(* One sampler object is alive at a time.  Its attributes are the          *)
(* variables number_of_nodes, seed, alpha, current_node, sampled_nodes;    *)
(* the locals of sample() are max_stucking_iter, start_node,               *)
(* stucking_iter and new_graph; pc is the position inside sample().        *)
(* The module-level generator of Python's random module is rng_state.      *)
(* In Spec (any number of calls on one sampler) and FairSpec (one call,    *)
(* which runs on) every random outcome is free and the generator is not    *)
(* tracked; in SpecSeeded the outcomes are those of the generator, a       *)
(* deterministic function of the seed and of the number of values drawn.   *)
(***************************************************************************)
EXTENDS Integers, Sequences, FiniteSets, TLC

(* ------------------------------ bounds -------------------------------- *)

\* largest number_of_nodes a sampler is constructed with
MaxTarget == 4
\* largest rejection exponent alpha (alpha ranges over 0..MaxAlpha)
MaxAlpha == 1
\* largest max_stucking_iter passed to sample
MaxStall == 2
\* seeds range over 0..MaxSeed
MaxSeed == 3
\* a raw random value ranges over 0..RandRange-1
RandRange == 4
\* non-growth iterations followed when the stall limit cannot be met
MaxCount == 3

(* ------------------------------ graphs -------------------------------- *)

\* undirected simple graphs, nodes indexed 0..n-1 as networkx generators do
Graph(n, es) == [nodes |-> 0 .. (n - 1), edges |-> es]

SingleNode == Graph(1, {})
EdgePlusIsolated == Graph(3, {{0, 1}})
Path3 == Graph(3, {{0, 1}, {1, 2}})
Star4 == Graph(4, {{0, 1}, {0, 2}, {0, 3}})
TrianglePlusIsolated == Graph(4, {{0, 1}, {0, 2}, {1, 2}})
Paw == Graph(4, {{0, 1}, {0, 2}, {1, 2}, {0, 3}})

Graphs == {SingleNode, EdgePlusIsolated, Path3, Star4, TrianglePlusIsolated, Paw}

\* graphs whose node identifiers are not 0 .. n-1, and the graph without nodes
SparsePath == [nodes |-> {1, 2, 3}, edges |-> {{1, 2}, {2, 3}}]
Gapped == [nodes |-> {0, 2, 4}, edges |-> {{0, 2}, {2, 4}}]
NoNodes == Graph(0, {})

SparseGraphs == {SparsePath, Gapped, NoNodes, Path3}

\* the graphs two calls at a time are followed on
SharedGraphs == {EdgePlusIsolated, Path3}

\* the graphs of the seeded specification
SeededGraphs == {Path3, Star4}

(* --------------------------- graph backend ---------------------------- *)

get_number_of_nodes(g) == Cardinality(g.nodes)

NeighborSet(g, v) == {w \in g.nodes : {v, w} \in g.edges}

RECURSIVE SortedSeq(_)
SortedSeq(S) ==
    IF S = {} THEN <<>>
    ELSE LET m == CHOOSE x \in S : \A y \in S : x <= y
         IN <<m>> \o SortedSeq(S \ {m})

\* the neighbor list, in adjacency order
get_neighbors(g, v) == SortedSeq(NeighborSet(g, v))

get_degree(g, v) == Cardinality(NeighborSet(g, v))

\* random.choice over a list of length n, driven by the raw value r
Choice(n, r) == (r % n) + 1

get_random_neighbor(g, v, r) ==
    get_neighbors(g, v)[Choice(get_degree(g, v), r)]

\* the induced subgraph
get_subgraph(g, S) ==
    [nodes |-> S, edges |-> {e \in g.edges : e \subseteq S}]

(* ----------------------------- arithmetic ----------------------------- *)

RECURSIVE Pow(_, _)
Pow(b, e) == IF e = 0 THEN 1 ELSE b * Pow(b, e - 1)

\* score < (d_cur / d_new) ** a, with score = r / RandRange
ScoreBelowRatioFlipped(r, d_cur, d_new, a) ==
    r * Pow(d_cur, a) < RandRange * Pow(d_new, a)

ScoreBelowRatio(r, d_cur, d_new, a) ==
    r * Pow(d_new, a) < RandRange * Pow(d_cur, a)

(* ------------------------------- state -------------------------------- *)

VARIABLES
    graph,              \* the graph every call of the behaviour samples
    number_of_nodes,    \* self.number_of_nodes
    seed,               \* self.seed
    alpha,              \* self.alpha
    max_stucking_iter,  \* argument of the call in progress
    start_node,         \* argument: <<>> is None, <<i>> is the integer i
    pc,                 \* position in sample()
    current_node,       \* self._current_node (Unset before the first call)
    sampled_nodes,      \* self._sampled_nodes
    stucking_iter,      \* local of sample()
    new_graph,          \* value sample() returned last
    rng_state,          \* state of the generator of module random
    first_node,         \* history: node the run in progress started at
    accepted,           \* history: edges {from, to} of the moves accepted in this run
    last,               \* history: what the last _do_a_step of this call did
    calls,              \* history: sample calls so far (SpecSeeded)
    first_call,         \* history: the call in progress is the first on its sampler
    call_rng,           \* history: rng_state when the call began
    trace,              \* history: sampled_nodes after init and each step (SpecSeeded)
    runs,               \* history: the sample calls that returned (SpecSeeded)
    other               \* a second sample call, in another thread (SpecShared)

vars == <<graph, number_of_nodes, seed, alpha, max_stucking_iter, start_node,
          pc, current_node, sampled_nodes, stucking_iter, new_graph,
          rng_state, first_node, accepted, last, calls, first_call, call_rng,
          trace, runs, other>>

config == <<graph, number_of_nodes, seed, alpha>>
walk == <<current_node, sampled_nodes>>

\* value of an attribute that does not exist yet
Unset == 0 - 1

Seeds == 0 .. MaxSeed
Alphas == 0 .. MaxAlpha
TargetCounts == 1 .. MaxTarget
StallLimits == 1 .. MaxStall
\* max_stucking_iter as sample() takes it: any integer, none refused
UnvalidatedLimits == (0 - 1) .. 1
Raw == 0 .. (RandRange - 1)
\* None, an index below every range, the first index, and an index that is
\* the last one of the 4-node graphs and out of range in the smaller ones
StartNodes == {<<>>, <<-1>>, <<0>>, <<3>>}

\* sample() is not running: a call may be made
Raised == {"raised_config", "raised_range", "raised_index", "raised_not_found"}
Callable == {"ready", "returned"} \cup Raised

NoStep == [outcome |-> "none", from |-> Unset, new_node |-> Unset]

\* the second call before it is made; same: it is made on the same sampler
\* object as the first (else on a sampler of its own, constructed alike).
\* current_node and sampled_nodes are the attributes of that other object;
\* visited is history: the nodes the second call has been at
IdleOther(same) ==
    [pc |-> "idle", same_object |-> same, max_stucking_iter |-> 1,
     stucking_iter |-> 0, current_node |-> Unset, sampled_nodes |-> {},
     visited |-> {}, result |-> {}]

(* ------------------------- random (generator) ------------------------- *)

\* random.seed(s): the state the seed fixes
RngSeed(s) == s % 16

\* the state after one more value is drawn (a full-period congruential
\* generator stands for the Mersenne Twister)
RngNext(x) == (5 * x + 3) % 16

\* the raw value, in Raw, the state x yields
RawValue(x) == (x * RandRange) \div 16

(* ------------------------------ __init__ ------------------------------ *)

InitRun(gs, seeds, targets) ==
    /\ graph \in gs
    /\ number_of_nodes \in targets
    /\ seed \in seeds
    /\ alpha \in Alphas
    /\ max_stucking_iter = 1
    /\ start_node = <<>>
    /\ pc = "ready"
    /\ current_node = Unset
    /\ sampled_nodes = {}
    /\ stucking_iter = 0
    /\ new_graph = get_subgraph(graph, {})
    /\ rng_state = RngSeed(seed)
    /\ first_node = Unset
    /\ accepted = {}
    /\ last = NoStep
    /\ calls = 0
    /\ first_call = FALSE
    /\ call_rng = rng_state
    /\ trace = <<>>
    /\ runs = <<>>

InitOver(gs, seeds, targets) ==
    InitRun(gs, seeds, targets) /\ other = IdleOther(FALSE)

InitWith(gs, seeds) == InitOver(gs, seeds, TargetCounts)

Init == InitWith(Graphs, {0})

\* number_of_nodes is not validated by __init__: 0 is taken as well
InitSparse == InitOver(SparseGraphs, {0}, 0 .. MaxTarget)

InitSeeded == InitWith(SeededGraphs, Seeds)

\* a new sampler, number_of_nodes = n, seed = s, alpha = a, replaces the old
\* one; _set_seed seeds the generator
ConstructWithoutSeeding(n, s, a) ==
    /\ UNCHANGED other
    /\ pc \in Callable
    /\ number_of_nodes' = n
    /\ seed' = s
    /\ alpha' = a
    /\ pc' = "ready"
    /\ current_node' = Unset
    /\ sampled_nodes' = {}
    /\ UNCHANGED <<graph, max_stucking_iter, start_node, stucking_iter,
                   new_graph, rng_state, first_node, accepted, last, calls,
                   first_call, call_rng, trace, runs>>

Construct(n, s, a) ==
    /\ UNCHANGED other
    /\ pc \in Callable
    /\ number_of_nodes' = n
    /\ seed' = s
    /\ alpha' = a
    /\ rng_state' = RngSeed(s)
    /\ pc' = "ready"
    /\ current_node' = Unset
    /\ sampled_nodes' = {}
    /\ UNCHANGED <<graph, max_stucking_iter, start_node, stucking_iter,
                   new_graph, first_node, accepted, last, calls, first_call,
                   call_rng, trace, runs>>

(* ---------------------- _create_initial_node_set ---------------------- *)

\* the explicit start node sn = <<i>> passes the range test
StartInRangeInclusive(g, sn) == sn[1] >= 0 /\ sn[1] <= get_number_of_nodes(g)

StartInRange(g, sn) == sn[1] >= 0 /\ sn[1] < get_number_of_nodes(g)

\* the node the walk starts at: start_node, or random.choice(range(n))
InitialNode(g, sn, r) ==
    IF sn # <<>> THEN sn[1]
    ELSE Choice(get_number_of_nodes(g), r) - 1

\* the sampled set the call starts with
InitialSetKeepsOld(old, node) == old \cup {node}

InitialSet(old, node) == {node}

(* ----------------------------- _do_a_step ----------------------------- *)

\* one step from cur with sampled set vis; nx.neighbors raises when cur is
\* not a node of g (outcome "not_found"); r1 is the raw value behind score,
\* r2 the one behind the neighbor choice (drawn only when cur has neighbors)
DoAStepAddsBeforeTest(g, cur, vis, a, r1, r2) ==
    IF cur \notin g.nodes
    THEN [current |-> cur, sampled |-> vis, outcome |-> "not_found",
          new_node |-> cur, draws |-> 1]
    ELSE IF Len(get_neighbors(g, cur)) = 0
    THEN [current |-> cur, sampled |-> vis, outcome |-> "no_neighbors",
          new_node |-> cur, draws |-> 1]
    ELSE LET new_node == get_random_neighbor(g, cur, r2)
         IN IF ScoreBelowRatio(r1, get_degree(g, cur), get_degree(g, new_node), a)
            THEN [current |-> new_node, sampled |-> vis \cup {new_node},
                  outcome |-> "accepted", new_node |-> new_node, draws |-> 2]
            ELSE [current |-> cur, sampled |-> vis \cup {new_node},
                  outcome |-> "rejected", new_node |-> new_node, draws |-> 2]

DoAStepMovesBeforeTest(g, cur, vis, a, r1, r2) ==
    IF cur \notin g.nodes
    THEN [current |-> cur, sampled |-> vis, outcome |-> "not_found",
          new_node |-> cur, draws |-> 1]
    ELSE IF Len(get_neighbors(g, cur)) = 0
    THEN [current |-> cur, sampled |-> vis, outcome |-> "no_neighbors",
          new_node |-> cur, draws |-> 1]
    ELSE LET new_node == get_random_neighbor(g, cur, r2)
         IN IF ScoreBelowRatio(r1, get_degree(g, cur), get_degree(g, new_node), a)
            THEN [current |-> new_node, sampled |-> vis \cup {new_node},
                  outcome |-> "accepted", new_node |-> new_node, draws |-> 2]
            ELSE [current |-> new_node, sampled |-> vis,
                  outcome |-> "rejected", new_node |-> new_node, draws |-> 2]

DoAStepReplacesSet(g, cur, vis, a, r1, r2) ==
    IF cur \notin g.nodes
    THEN [current |-> cur, sampled |-> vis, outcome |-> "not_found",
          new_node |-> cur, draws |-> 1]
    ELSE IF Len(get_neighbors(g, cur)) = 0
    THEN [current |-> cur, sampled |-> vis, outcome |-> "no_neighbors",
          new_node |-> cur, draws |-> 1]
    ELSE LET new_node == get_random_neighbor(g, cur, r2)
         IN IF ScoreBelowRatio(r1, get_degree(g, cur), get_degree(g, new_node), a)
            THEN [current |-> new_node, sampled |-> {new_node},
                  outcome |-> "accepted", new_node |-> new_node, draws |-> 2]
            ELSE [current |-> cur, sampled |-> vis,
                  outcome |-> "rejected", new_node |-> new_node, draws |-> 2]

DoAStepFlippedRatio(g, cur, vis, a, r1, r2) ==
    IF cur \notin g.nodes
    THEN [current |-> cur, sampled |-> vis, outcome |-> "not_found",
          new_node |-> cur, draws |-> 1]
    ELSE IF Len(get_neighbors(g, cur)) = 0
    THEN [current |-> cur, sampled |-> vis, outcome |-> "no_neighbors",
          new_node |-> cur, draws |-> 1]
    ELSE LET new_node == get_random_neighbor(g, cur, r2)
         IN IF ScoreBelowRatioFlipped(r1, get_degree(g, cur),
                                      get_degree(g, new_node), a)
            THEN [current |-> new_node, sampled |-> vis \cup {new_node},
                  outcome |-> "accepted", new_node |-> new_node, draws |-> 2]
            ELSE [current |-> cur, sampled |-> vis,
                  outcome |-> "rejected", new_node |-> new_node, draws |-> 2]

DoAStepKeepsCurrent(g, cur, vis, a, r1, r2) ==
    IF cur \notin g.nodes
    THEN [current |-> cur, sampled |-> vis, outcome |-> "not_found",
          new_node |-> cur, draws |-> 1]
    ELSE IF Len(get_neighbors(g, cur)) = 0
    THEN [current |-> cur, sampled |-> vis, outcome |-> "no_neighbors",
          new_node |-> cur, draws |-> 1]
    ELSE LET new_node == get_random_neighbor(g, cur, r2)
         IN IF ScoreBelowRatio(r1, get_degree(g, cur), get_degree(g, new_node), a)
            THEN [current |-> cur, sampled |-> vis \cup {new_node},
                  outcome |-> "accepted", new_node |-> new_node, draws |-> 2]
            ELSE [current |-> cur, sampled |-> vis,
                  outcome |-> "rejected", new_node |-> new_node, draws |-> 2]

DoAStep(g, cur, vis, a, r1, r2) ==
    IF cur \notin g.nodes
    THEN [current |-> cur, sampled |-> vis, outcome |-> "not_found",
          new_node |-> cur, draws |-> 1]
    ELSE IF Len(get_neighbors(g, cur)) = 0
    THEN [current |-> cur, sampled |-> vis, outcome |-> "no_neighbors",
          new_node |-> cur, draws |-> 1]
    ELSE LET new_node == get_random_neighbor(g, cur, r2)
         IN IF ScoreBelowRatio(r1, get_degree(g, cur), get_degree(g, new_node), a)
            THEN [current |-> new_node, sampled |-> vis \cup {new_node},
                  outcome |-> "accepted", new_node |-> new_node, draws |-> 2]
            ELSE [current |-> cur, sampled |-> vis,
                  outcome |-> "rejected", new_node |-> new_node, draws |-> 2]

(* ------------------------------- sample ------------------------------- *)

\* _check_number_of_nodes raises: more nodes are asked for than g has
CheckNumberOfNodesFails(g, n) == n > get_number_of_nodes(g)

\* the while test: fewer nodes are sampled than n
WhileTestInclusive(sampled, n) == Cardinality(sampled) <= n

WhileTest(sampled, n) == Cardinality(sampled) < n

\* stucking_iter after an iteration that went from prev to new sampled nodes
StuckingAfterKeeps(prev, new, stuck) == IF prev = new THEN stuck + 1 ELSE stuck

StuckingAfterCountsGrowth(prev, new, stuck) ==
    IF prev = new THEN 0 ELSE stuck + 1

StuckingAfterNeverCounts(prev, new, stuck) == 0

StuckingAfter(prev, new, stuck) == IF prev = new THEN stuck + 1 ELSE 0

\* the iteration leaves the loop through break
BreaksPastLimit(prev, new, stuck, max) ==
    prev = new /\ StuckingAfter(prev, new, stuck) > max

BreaksAtOrPast(prev, new, stuck, max) ==
    prev = new /\ StuckingAfter(prev, new, stuck) >= max

Breaks(prev, new, stuck, max) ==
    prev = new /\ StuckingAfter(prev, new, stuck) = max

\* sample() with the initial node set created before the check
SampleCallInitFirst(seeded, m, sn) ==
    /\ UNCHANGED other
    /\ pc \in Callable
    /\ max_stucking_iter' = m
    /\ start_node' = sn
    /\ calls' = IF seeded THEN calls + 1 ELSE calls
    /\ first_call' = (pc = "ready")
    /\ call_rng' = rng_state
    /\ last' = NoStep
    /\ UNCHANGED <<config, new_graph, runs>>
    /\ IF sn # <<>> /\ ~StartInRange(graph, sn)
       THEN /\ pc' = "raised_range"
            /\ UNCHANGED <<walk, stucking_iter, rng_state, first_node,
                           accepted, trace>>
       ELSE IF sn = <<>> /\ get_number_of_nodes(graph) = 0
       THEN /\ pc' = "raised_index"
            /\ UNCHANGED <<walk, stucking_iter, rng_state, first_node,
                           accepted, trace>>
       ELSE \E r \in Raw :
            LET x == RngNext(rng_state)
                node == InitialNode(graph, sn, r)
                drawn == sn = <<>>
            IN /\ seeded => r = RawValue(x)
               /\ current_node' = node
               /\ sampled_nodes' = InitialSet(sampled_nodes, node)
               /\ stucking_iter' = 0
               /\ pc' = IF CheckNumberOfNodesFails(graph, number_of_nodes)
                        THEN "raised_config" ELSE "loop"
               /\ rng_state' = IF seeded /\ drawn THEN x ELSE rng_state
               /\ first_node' = node
               /\ accepted' = {}
               /\ trace' = IF seeded THEN <<sampled_nodes'>> ELSE <<>>

\* sample(graph, max_stucking_iter = m, start_node = sn) up to the loop;
\* seeded: the random values are those of the generator
SampleCall(seeded, m, sn) ==
    /\ UNCHANGED other
    /\ pc \in Callable
    /\ max_stucking_iter' = m
    /\ start_node' = sn
    /\ calls' = IF seeded THEN calls + 1 ELSE calls
    /\ first_call' = (pc = "ready")
    /\ call_rng' = rng_state
    /\ last' = NoStep
    /\ UNCHANGED <<config, new_graph, runs>>
    /\ IF CheckNumberOfNodesFails(graph, number_of_nodes)
       THEN \* _check_number_of_nodes raises
            /\ pc' = "raised_config"
            /\ UNCHANGED <<walk, stucking_iter, rng_state, first_node,
                           accepted, trace>>
       ELSE IF sn # <<>> /\ ~StartInRange(graph, sn)
       THEN \* _create_initial_node_set raises
            /\ pc' = "raised_range"
            /\ UNCHANGED <<walk, stucking_iter, rng_state, first_node,
                           accepted, trace>>
       ELSE IF sn = <<>> /\ get_number_of_nodes(graph) = 0
       THEN \* random.choice raises on the empty range
            /\ pc' = "raised_index"
            /\ UNCHANGED <<walk, stucking_iter, rng_state, first_node,
                           accepted, trace>>
       ELSE \E r \in Raw :
            LET x == RngNext(rng_state)
                node == InitialNode(graph, sn, r)
                drawn == sn = <<>>
            IN /\ seeded => r = RawValue(x)
               /\ current_node' = node
               /\ sampled_nodes' = InitialSet(sampled_nodes, node)
               /\ stucking_iter' = 0
               /\ pc' = "loop"
               /\ rng_state' = IF seeded /\ drawn THEN x ELSE rng_state
               /\ first_node' = node
               /\ accepted' = {}
               /\ trace' = IF seeded THEN <<sampled_nodes'>> ELSE <<>>

\* one iteration of the while loop: the test, _do_a_step, the bookkeeping;
\* an exception of _do_a_step ends the call
LoopIter(seeded) ==
    /\ UNCHANGED other
    /\ pc = "loop"
    /\ WhileTest(sampled_nodes, number_of_nodes)
    /\ \E r1, r2 \in Raw :
       LET x1 == RngNext(rng_state)
           x2 == RngNext(x1)
           st == DoAStep(graph, current_node, sampled_nodes, alpha, r1, r2)
           prev == Cardinality(sampled_nodes)
           new == Cardinality(st.sampled)
       IN /\ seeded => (r1 = RawValue(x1) /\ r2 = RawValue(x2))
          /\ current_node' = st.current
          /\ sampled_nodes' = st.sampled
          /\ stucking_iter' = IF st.outcome = "not_found" THEN stucking_iter
                              ELSE StuckingAfter(prev, new, stucking_iter)
          /\ pc' = IF st.outcome = "not_found" THEN "raised_not_found"
                   ELSE IF Breaks(prev, new, stucking_iter, max_stucking_iter)
                   THEN "stalled" ELSE "loop"
          /\ rng_state' = IF ~seeded THEN rng_state
                          ELSE IF st.draws = 2 THEN x2 ELSE x1
          /\ accepted' = IF st.outcome = "accepted"
                         THEN accepted \cup {{current_node, st.new_node}}
                         ELSE accepted
          /\ last' = [outcome |-> st.outcome, from |-> current_node,
                      new_node |-> st.new_node]
          /\ trace' = IF seeded THEN Append(trace, st.sampled) ELSE trace
    /\ UNCHANGED <<config, max_stucking_iter, start_node, new_graph,
                   first_node, calls, first_call, call_rng, runs>>

\* the while test fails: the target is reached
LoopExit ==
    /\ UNCHANGED other
    /\ pc = "loop"
    /\ ~WhileTest(sampled_nodes, number_of_nodes)
    /\ pc' = "target_reached"
    /\ UNCHANGED <<config, max_stucking_iter, start_node, walk, stucking_iter,
                   new_graph, rng_state, first_node, accepted, last, calls,
                   first_call, call_rng, trace, runs>>

\* sample() returning the graph it was given
ReturnGraphWhole(seeded) ==
    /\ UNCHANGED other
    /\ pc \in {"target_reached", "stalled"}
    /\ new_graph' = graph
    /\ pc' = "returned"
    /\ runs' = IF seeded
               THEN Append(runs, [number_of_nodes |-> number_of_nodes,
                                  seed |-> seed, alpha |-> alpha,
                                  max_stucking_iter |-> max_stucking_iter,
                                  start_node |-> start_node,
                                  first_call |-> first_call,
                                  trace |-> trace,
                                  new_graph |-> new_graph'])
               ELSE runs
    /\ max_stucking_iter' = 1
    /\ start_node' = <<>>
    /\ stucking_iter' = 0
    /\ first_node' = Unset
    /\ accepted' = {}
    /\ last' = NoStep
    /\ first_call' = FALSE
    /\ trace' = <<>>
    /\ UNCHANGED <<config, walk, rng_state, calls, call_rng>>

\* the induced subgraph is extracted and returned; the locals of the call
\* and the history of the run end with it
ReturnGraph(seeded) ==
    /\ UNCHANGED other
    /\ pc \in {"target_reached", "stalled"}
    /\ new_graph' = get_subgraph(graph, sampled_nodes)
    /\ pc' = "returned"
    /\ runs' = IF seeded
               THEN Append(runs, [number_of_nodes |-> number_of_nodes,
                                  seed |-> seed, alpha |-> alpha,
                                  max_stucking_iter |-> max_stucking_iter,
                                  start_node |-> start_node,
                                  first_call |-> first_call,
                                  trace |-> trace,
                                  new_graph |-> new_graph'])
               ELSE runs
    /\ max_stucking_iter' = 1
    /\ start_node' = <<>>
    /\ stucking_iter' = 0
    /\ first_node' = Unset
    /\ accepted' = {}
    /\ last' = NoStep
    /\ first_call' = FALSE
    /\ trace' = <<>>
    /\ UNCHANGED <<config, walk, rng_state, calls, call_rng>>

(* ------------------- sample, called a second time -------------------- *)

\* what the first call has of its own: all but the attributes of the object
runA == <<config, max_stucking_iter, start_node, pc, stucking_iter,
          new_graph, rng_state, first_node, accepted, last, calls, first_call,
          call_rng, trace, runs>>

\* self._current_node and self._sampled_nodes as the second call finds them
OtherWalk ==
    IF other.same_object
    THEN [current |-> current_node, sampled |-> sampled_nodes]
    ELSE [current |-> other.current_node, sampled |-> other.sampled_nodes]

\* the second call assigns cur and sam to them and goes on as o
OtherWrites(cur, sam, o) ==
    IF other.same_object
    THEN /\ current_node' = cur
         /\ sampled_nodes' = sam
         /\ other' = o
    ELSE /\ UNCHANGED walk
         /\ other' = [o EXCEPT !.current_node = cur, !.sampled_nodes = sam]

\* the second sample call up to the loop
OtherSample ==
    /\ other.pc = "idle"
    /\ pc # "ready"
    /\ UNCHANGED runA
    /\ \E m \in StallLimits, sn \in StartNodes :
         IF \/ CheckNumberOfNodesFails(graph, number_of_nodes)
            \/ (sn # <<>> /\ ~StartInRange(graph, sn))
            \/ (sn = <<>> /\ get_number_of_nodes(graph) = 0)
         THEN /\ other' = [other EXCEPT !.pc = "raised"]
              /\ UNCHANGED walk
         ELSE \E r \in Raw :
              LET node == InitialNode(graph, sn, r)
              IN OtherWrites(node, InitialSet(OtherWalk.sampled, node),
                             [other EXCEPT !.pc = "loop",
                                           !.max_stucking_iter = m,
                                           !.stucking_iter = 0,
                                           !.visited = {node}])

\* one iteration of the while loop of the second call
OtherStep ==
    /\ other.pc = "loop"
    /\ WhileTest(OtherWalk.sampled, number_of_nodes)
    /\ UNCHANGED runA
    /\ \E r1, r2 \in Raw :
       LET w == OtherWalk
           st == DoAStep(graph, w.current, w.sampled, alpha, r1, r2)
           prev == Cardinality(w.sampled)
           new == Cardinality(st.sampled)
           stuck == other.stucking_iter
       IN OtherWrites(st.current, st.sampled,
            [other EXCEPT
               !.stucking_iter = IF st.outcome = "not_found" THEN stuck
                                 ELSE StuckingAfter(prev, new, stuck),
               !.pc = IF st.outcome = "not_found" THEN "raised"
                      ELSE IF Breaks(prev, new, stuck, other.max_stucking_iter)
                      THEN "stalled" ELSE "loop",
               !.visited = IF st.outcome = "accepted"
                           THEN @ \cup {w.current, st.new_node} ELSE @])

\* the while test of the second call fails
OtherExit ==
    /\ other.pc = "loop"
    /\ ~WhileTest(OtherWalk.sampled, number_of_nodes)
    /\ other' = [other EXCEPT !.pc = "target_reached"]
    /\ UNCHANGED <<runA, walk>>

\* the second call returns the induced subgraph; result is its node set
OtherReturn ==
    /\ other.pc \in {"target_reached", "stalled"}
    /\ other' = [other EXCEPT
                   !.pc = "returned",
                   !.result = get_subgraph(graph, OtherWalk.sampled).nodes]
    /\ UNCHANGED <<runA, walk>>

(* --------------------------- specifications --------------------------- *)

\* Spec: any number of calls on one sampler, random outcomes free
Sample == \E m \in StallLimits, sn \in StartNodes : SampleCall(FALSE, m, sn)
Step == LoopIter(FALSE)
Return == ReturnGraph(FALSE)

Next == Sample \/ Step \/ LoopExit \/ Return

Spec == Init /\ [][Next]_vars

\* FairSpec: one call on a new sampler, random outcomes free; sample() is
\* synchronous, so a call that began runs on
FirstSample == pc = "ready" /\ Sample

NextOnce == FirstSample \/ Step \/ LoopExit \/ Return

FairSpec ==
    Init /\ [][NextOnce]_vars /\ WF_vars(Step \/ LoopExit \/ Return)

\* SpecSeeded: a first call, then the same call again, on the same sampler
\* or on a new one with the same number_of_nodes and alpha and any seed
SampleSeeded ==
    /\ calls = 0
    /\ \E m \in StallLimits, sn \in StartNodes : SampleCall(TRUE, m, sn)
NewSampler ==
    /\ calls = 1
    /\ runs # <<>>
    /\ pc = "returned"
    /\ \E s \in Seeds : Construct(number_of_nodes, s, alpha)
SampleAgain ==
    /\ calls = 1
    /\ runs # <<>>
    /\ SampleCall(TRUE, runs[1].max_stucking_iter, runs[1].start_node)
StepSeeded == LoopIter(TRUE)
ReturnSeeded == ReturnGraph(TRUE)

NextSeeded ==
    SampleSeeded \/ NewSampler \/ SampleAgain \/ StepSeeded \/ LoopExit
      \/ ReturnSeeded

SpecSeeded == InitSeeded /\ [][NextSeeded]_vars

\* SpecSparse: one call on a new sampler, on graphs whose node identifiers
\* need not be 0 .. n-1, random outcomes free
SpecSparse == InitSparse /\ [][NextOnce]_vars

\* SpecShared: one call, and a second call in another thread, on the same
\* sampler or on one constructed alike; the two take turns at the
\* granularity of loop iterations, random outcomes free
InitShared ==
    /\ InitRun(SharedGraphs, {0}, TargetCounts)
    /\ \E same \in BOOLEAN : other = IdleOther(same)

NextShared ==
    NextOnce \/ OtherSample \/ OtherStep \/ OtherExit \/ OtherReturn

SpecShared == InitShared /\ [][NextShared]_vars

\* SpecUnvalidated: one call on a new sampler with any max_stucking_iter,
\* zero and negative values included; the count of non-growth iterations
\* is followed up to MaxCount
SampleUnvalidated ==
    /\ pc = "ready"
    /\ \E m \in UnvalidatedLimits, sn \in StartNodes : SampleCall(FALSE, m, sn)
StepUnvalidated == stucking_iter < MaxCount /\ LoopIter(FALSE)
ReturnUnvalidated == ReturnGraph(FALSE)

NextUnvalidated ==
    SampleUnvalidated \/ StepUnvalidated \/ LoopExit \/ ReturnUnvalidated

SpecUnvalidated == Init /\ [][NextUnvalidated]_vars

(* ------------------------------- claims ------------------------------- *)

\* the nodes reachable from the nodes of S along the edges of E
RECURSIVE ReachSet(_, _)
ReachSet(S, E) ==
    LET T == S \cup {w \in UNION E : \E v \in S : {v, w} \in E}
    IN IF T = S THEN S ELSE ReachSet(T, E)

\* the subgraph of g induced by S is connected
InducedConnected(g, S) ==
    \A v \in S : S \subseteq ReachSet({v}, {e \in g.edges : e \subseteq S})

Terminal == {"target_reached", "stalled"}

\* the arguments of the call in progress, with the sampler's configuration,
\* are valid
ValidCall ==
    /\ number_of_nodes >= 1
    /\ number_of_nodes <= get_number_of_nodes(graph)
    /\ start_node # <<>> => StartInRange(graph, start_node)
    /\ max_stucking_iter >= 1

\* the same, max_stucking_iter left aside
ValidCallButLimit ==
    /\ number_of_nodes >= 1
    /\ number_of_nodes <= get_number_of_nodes(graph)
    /\ start_node # <<>> => StartInRange(graph, start_node)

\* C1: a sample call with a valid configuration never raises, and once its
\* loop is entered it reaches TARGET_REACHED or STALLED, whatever the
\* random outcomes are (only the loop going on is assumed).
C1_Terminates ==
    /\ [](ValidCall => pc \notin {"raised_config", "raised_range"})
    /\ (pc = "loop") ~> (pc \in Terminal)

C1_Witness ==
    /\ pc = "stalled"
    /\ ValidCall
    /\ Cardinality(sampled_nodes) >= 2
    /\ max_stucking_iter = MaxStall

\* C2: at TARGET_REACHED the sampled set has at least number_of_nodes nodes,
\* and every one of them is reached from the start node along edges of the
\* graph that accepted moves of this run traversed.
C2_TargetReached ==
    pc = "target_reached" =>
        /\ Cardinality(sampled_nodes) >= number_of_nodes
        /\ accepted \subseteq graph.edges
        /\ sampled_nodes \subseteq ReachSet({first_node}, accepted)

C2_Witness ==
    /\ pc = "target_reached"
    /\ Cardinality(sampled_nodes) >= 3
    /\ Cardinality(accepted) >= 3

\* C3: in every state the subgraph of the input graph induced by the
\* sampled set is connected, under every alpha and every pattern of
\* accepted and rejected moves.
C3_Connected == InducedConnected(graph, sampled_nodes)

C3_Witness ==
    /\ pc = "stalled"
    /\ alpha > 0
    /\ last.outcome = "rejected"
    /\ Cardinality(sampled_nodes) >= 3

\* C4: once a call has initialised the walk, current_node is in the sampled
\* set, after every kind of step.
C4_CurrentSampled ==
    /\ pc \in {"loop", "target_reached", "stalled", "returned"}
         => current_node # Unset
    /\ current_node # Unset => current_node \in sampled_nodes

C4_Witness ==
    /\ pc = "loop"
    /\ last.outcome = "rejected"
    /\ current_node # first_node

\* C5: while a run is on, a step leaves the sampled set as it was or adds
\* one node to it, the node the walk moved to; no node is removed.
C5_OnlyGrows ==
    [][(pc \in {"loop", "target_reached", "stalled"}) =>
         (/\ sampled_nodes \subseteq sampled_nodes'
          /\ sampled_nodes' \ sampled_nodes \in {{}, {current_node'}})]_vars

C5_Witness ==
    /\ pc = "loop"
    /\ last.outcome = "accepted"
    /\ last.new_node \notin {first_node}
    /\ Cardinality(sampled_nodes) = 3

\* the connected component of the start node, and the case of C6: it is a
\* clique with fewer nodes than the sampler asks for
StartComponent == ReachSet({first_node}, graph.edges)

IsClique(g, S) == \A u, v \in S : u # v => {u, v} \in g.edges

StartInSmallClique ==
    /\ first_node # Unset
    /\ IsClique(graph, StartComponent)
    /\ Cardinality(StartComponent) < number_of_nodes

\* C6 as stated: a run started in a clique of k < number_of_nodes nodes cut
\* off from the rest ends STALLED, after max_stucking_iter non-growth
\* iterations in a row, with the whole clique sampled.
C6_StallsWithWholeClique ==
    (pc \in Terminal /\ StartInSmallClique) =>
        /\ pc = "stalled"
        /\ stucking_iter = max_stucking_iter
        /\ sampled_nodes = StartComponent

\* C6 as amended: such a run always ends, and ends STALLED, after
\* max_stucking_iter non-growth iterations in a row; its sampled set holds
\* the start node, lies inside the clique, and has a second node when the
\* clique has one (the whole clique is not guaranteed).
C6_StallsInsideClique ==
    /\ [](((pc \in Terminal) /\ StartInSmallClique) =>
            (/\ pc = "stalled"
             /\ stucking_iter = max_stucking_iter
             /\ first_node \in sampled_nodes
             /\ sampled_nodes \subseteq StartComponent
             /\ Cardinality(StartComponent) >= 2
                  => Cardinality(sampled_nodes) >= 2))
    /\ (pc = "loop" /\ StartInSmallClique) ~> (pc = "stalled")

C6_Witness ==
    /\ pc = "stalled"
    /\ StartInSmallClique
    /\ Cardinality(StartComponent) = 3
    /\ sampled_nodes = StartComponent

\* two returned calls had the same configuration and arguments
SameCall(a, b) ==
    /\ a.number_of_nodes = b.number_of_nodes
    /\ a.seed = b.seed
    /\ a.alpha = b.alpha
    /\ a.max_stucking_iter = b.max_stucking_iter
    /\ a.start_node = b.start_node

SameResult(a, b) == a.trace = b.trace /\ a.new_graph = b.new_graph

C8_AcceptedWhenRatioAtLeastOne ==
    last.outcome \in {"accepted", "rejected"} =>
        ((alpha = 0 \/ get_degree(graph, last.new_node)
                          <= get_degree(graph, last.from))
            => last.outcome = "accepted")

C8_Witness ==
    /\ last.outcome = "accepted"
    /\ alpha > 0
    /\ get_degree(graph, last.new_node) < get_degree(graph, last.from)

\* the call in progress, or the one that just raised, was given a start
\* node outside [0, node count)
BadStart ==
    /\ start_node # <<>>
    /\ (start_node[1] < 0 \/ start_node[1] >= Cardinality(graph.nodes))

\* C9 as stated: a call with an explicit start node out of range raises the
\* out-of-range error, with no step taken.
C9_BadStartRaisesRange ==
    BadStart => (pc = "raised_range" /\ last = NoStep)

\* C9 as amended: such a call raises with no step taken and returns nothing;
\* the error is the out-of-range one when number_of_nodes is at most the
\* node count, and the configuration error otherwise.
C9_BadStartRaises ==
    BadStart =>
        /\ last = NoStep
        /\ pc = IF number_of_nodes <= Cardinality(graph.nodes)
                THEN "raised_range" ELSE "raised_config"

C9_Witness ==
    /\ BadStart
    /\ pc = "raised_range"
    /\ start_node = <<3>>
    /\ current_node # Unset

\* C10: a call on a sampler whose number_of_nodes exceeds the node count
\* raises the configuration error with no step taken, before the start node
\* is validated or chosen: the walk attributes are not created and no
\* random value is drawn.
C10_ConfigCheckedFirst ==
    (calls > 0 /\ number_of_nodes > Cardinality(graph.nodes)) =>
        /\ pc = "raised_config"
        /\ last = NoStep
        /\ current_node = Unset
        /\ sampled_nodes = {}
        /\ rng_state = call_rng
        /\ trace = <<>>

C10_Witness ==
    /\ pc = "raised_config"
    /\ calls > 0
    /\ start_node = <<>>
    /\ number_of_nodes = get_number_of_nodes(graph) + 1

\* C13: the graph sample() returns has the sampled set of the terminal
\* state as its nodes and, as its edges, the edges of the input graph with
\* both ends sampled, no more and no fewer; the input graph never changes.
C13_InducedSubgraph ==
    /\ [](pc = "returned" =>
            (/\ new_graph.nodes = sampled_nodes
             /\ new_graph.edges \subseteq graph.edges
             /\ \A e \in graph.edges :
                  e \in new_graph.edges <=> \A v \in e : v \in sampled_nodes))
    /\ [][graph' = graph]_vars

C13_Witness ==
    /\ pc = "returned"
    /\ Cardinality(new_graph.nodes) = 3
    /\ Cardinality(new_graph.edges) = 3
    /\ new_graph.edges # graph.edges

\* a loop iteration was made by this step
Iterated == pc = "loop" /\ pc' \in {"loop", "stalled"}

\* C14: stucking_iter is 0 when the loop is entered, an iteration that grew
\* the sampled set resets it to 0 and one that did not adds 1; the run is
\* STALLED exactly when a non-growth iteration brings it to
\* max_stucking_iter, and while the loop runs 0 <= stucking_iter <
\* max_stucking_iter.
C14_StallBookkeeping ==
    /\ [](pc = "loop" =>
            (stucking_iter >= 0 /\ stucking_iter < max_stucking_iter))
    /\ [][((pc \in Callable) /\ pc' = "loop") => stucking_iter' = 0]_vars
    /\ [][Iterated =>
            (/\ stucking_iter' = IF sampled_nodes' = sampled_nodes
                                 THEN stucking_iter + 1 ELSE 0
             /\ pc' = "stalled" <=> stucking_iter' = max_stucking_iter)]_vars

C14_Witness ==
    /\ pc = "stalled"
    /\ stucking_iter = MaxStall
    /\ max_stucking_iter = MaxStall
    /\ Cardinality(sampled_nodes) = 3
    /\ last.outcome = "rejected"

\* C15: the size of the sampled set is the only stall signal. An accepted
\* move to a node already sampled changes current_node and still adds 1 to
\* stucking_iter, as a rejected move and a step without neighbors do;
\* stucking_iter is reset only by an accepted move to a node not yet sampled.
C15_SizeIsTheStallSignal ==
    [][Iterated =>
         LET moved == last'.outcome = "accepted"
             fresh == moved /\ last'.new_node \notin sampled_nodes
         IN /\ fresh => stucking_iter' = 0
            /\ ~fresh => stucking_iter' = stucking_iter + 1
            /\ (moved /\ ~fresh) =>
                 (current_node' # current_node
                    /\ sampled_nodes' = sampled_nodes)]_vars

C15_Witness ==
    /\ pc = "loop"
    /\ last.outcome = "accepted"
    /\ stucking_iter = 1
    /\ current_node = first_node
    /\ Cardinality(sampled_nodes) = 2

\* C16: a step that rejects its candidate and a step at a node without
\* neighbors leave current_node and the sampled set as they were; an accepted
\* move does exactly current_node := candidate and sampled := sampled \cup
\* {candidate}, the candidate being a neighbor of the previous current_node.
C16_StepEffect ==
    [][Iterated =>
         /\ last'.from = current_node
         /\ last'.outcome \in {"accepted", "rejected", "no_neighbors"}
         /\ last'.outcome \in {"rejected", "no_neighbors"} => UNCHANGED walk
         /\ last'.outcome = "accepted" =>
              (/\ {current_node, last'.new_node} \in graph.edges
               /\ current_node' = last'.new_node
               /\ sampled_nodes' = sampled_nodes \cup {last'.new_node})
         /\ last'.outcome = "rejected" =>
              {current_node, last'.new_node} \in graph.edges
         /\ last'.outcome = "no_neighbors" <=>
              ~(\E e \in graph.edges : current_node \in e)]_vars

C16_Witness ==
    /\ pc = "loop"
    /\ last.outcome = "rejected"
    /\ last.from = current_node
    /\ last.new_node \notin sampled_nodes
    /\ Cardinality(sampled_nodes) = 2

\* the nodes the current call has been at: its start node and both ends of
\* the moves it made
VisitedThisCall == {first_node} \cup UNION accepted

\* C17: every successful call starts with sampled = {start node of the call}
\* and stucking_iter = 0, whatever the previous call left behind, and the
\* sampled set of a call holds only nodes that call has been at.
C17_FreshPerCall ==
    /\ [][((pc \in Callable) /\ pc' = "loop") =>
            (/\ sampled_nodes' = {current_node'}
             /\ first_node' = current_node'
             /\ stucking_iter' = 0)]_vars
    /\ [](pc \in Terminal \cup {"loop"} =>
            sampled_nodes \subseteq VisitedThisCall)

C17_Witness ==
    /\ pc = "loop"
    /\ last = NoStep
    /\ Cardinality(new_graph.nodes) = 3
    /\ current_node \notin new_graph.nodes
    /\ sampled_nodes = {current_node}

\* C18: the sampled set never has more than number_of_nodes nodes; it has
\* exactly that many when the target is reached and fewer when the run
\* stalls; with number_of_nodes = 1 no step is taken and the start node is
\* the result; the while test is made before each step.
C18_NeverOvershoots ==
    /\ [](pc \in Terminal \cup {"loop", "returned"} =>
            Cardinality(sampled_nodes) <= number_of_nodes)
    /\ [](pc = "target_reached" =>
            Cardinality(sampled_nodes) = number_of_nodes)
    /\ [](pc = "stalled" => Cardinality(sampled_nodes) < number_of_nodes)
    /\ []((number_of_nodes = 1 /\ pc \in Terminal \cup {"loop"}) =>
            (pc # "stalled" /\ last = NoStep
               /\ sampled_nodes = {first_node}))
    /\ [][Iterated => Cardinality(sampled_nodes) < number_of_nodes]_vars

C18_Witness ==
    /\ pc = "target_reached"
    /\ number_of_nodes = 3
    /\ get_number_of_nodes(graph) = 4
    /\ last.outcome = "accepted"
    /\ last.from # first_node

\* current_node has no neighbors and the target is not reached: the sampled
\* set can grow no more
GrowthHalted ==
    /\ pc = "loop"
    /\ Cardinality(sampled_nodes) < number_of_nodes
    /\ ~(\E e \in graph.edges : current_node \in e)

\* C19: max_stucking_iter is not validated and the stall test is an
\* equality made after the increment, so with max_stucking_iter <= 0 the
\* run never stalls: it ends only by reaching the target, and where growth
\* has halted below the target every iteration leaves the loop running.
C19_NoStallBelowOne ==
    /\ [](max_stucking_iter <= 0 => pc # "stalled")
    /\ []((max_stucking_iter <= 0 /\ ValidCallButLimit) =>
            pc \notin {"raised_config", "raised_range"})
    /\ [][(max_stucking_iter <= 0 /\ Iterated) => pc' = "loop"]_vars
    /\ [][(max_stucking_iter <= 0 /\ GrowthHalted) =>
            (pc' = "loop" /\ UNCHANGED walk)]_vars

C19_Witness ==
    /\ GrowthHalted
    /\ max_stucking_iter = 0
    /\ stucking_iter = MaxCount
    /\ number_of_nodes >= 2

\* C11: every failure is raised before the loop takes a step, on every graph
\* (node identifiers 0 .. n-1 or not, no nodes at all), and the node the
\* loop walks from is always a node of the graph.
C11_FailuresBeforeLoop ==
    /\ pc \in Raised => last = NoStep
    /\ pc = "loop" => current_node \in graph.nodes

\* the sampled set each call works on holds the nodes that call has been
\* at and no others: no call reads what the other wrote
NoInterference ==
    /\ pc \in Terminal \cup {"loop"} =>
         (sampled_nodes = VisitedThisCall /\ current_node \in VisitedThisCall)
    /\ other.pc \in Terminal \cup {"loop"} =>
         (OtherWalk.sampled = other.visited
            /\ OtherWalk.current \in other.visited)
    /\ other.pc = "returned" => other.result = other.visited

\* C12: two sample calls on the same graph whose iterations interleave do
\* not interfere, also when both are made on the same sampler object.
C12_RunsDoNotInterfere == NoInterference

\* on two sampler objects they do not
SeparateObjectsDoNotInterfere == ~other.same_object => NoInterference

====
